---- MODULE Spec2Model ----
(***************************************************************************)
(* A model of UpdateDependenciesMain.updateDependenciesVersions            *)
(* (scopes/scope/update-dependencies/update-dependencies.main.runtime.ts): *)
(* a batch of components is loaded, each gets its next version, the        *)
(* dependency edges are rewritten, the batch is built, saved to the local  *)
(* scope and then exported or announced to the remotes.                    *)
(***************************************************************************)
EXTENDS Integers, Sequences, FiniteSets, TLC

(* ------------------------------ bounds -------------------------------- *)

\* the longest list of requested dependencies of one item
MaxDeps == 1

\* the calls of updateDependenciesVersions made on one scope, one after another
MaxRuns == 2

(* ----------------------------- versions ------------------------------- *)

Sem(a, b, c) == [k |-> "sem", maj |-> a, min |-> b, pat |-> c]
\* a snap (hash) version; n tells the tokens apart
Snap(n) == [k |-> "snap", maj |-> n, min |-> 0, pat |-> 0]
\* the version of an id that carries none
NoVer == [k |-> "none", maj |-> 0, min |-> 0, pat |-> 0]
LATEST == [k |-> "latest", maj |-> 0, min |-> 0, pat |-> 0]

IsSem(v) == v.k = "sem"

\* semver precedence of two semantic versions
SemLess(v, w) ==
    \/ v.maj < w.maj
    \/ v.maj = w.maj /\ v.min < w.min
    \/ v.maj = w.maj /\ v.min = w.min /\ v.pat < w.pat

\* the highest version of a non-empty set of semantic versions
MaxVersion(S) == CHOOSE v \in S : \A w \in S : w = v \/ SemLess(w, v)

\* semver.inc(latest, releaseType)
SemverInc(v, releaseType) ==
    IF releaseType = "major" THEN Sem(v.maj + 1, 0, 0)
    ELSE IF releaseType = "minor" THEN Sem(v.maj, v.min + 1, 0)
    ELSE Sem(v.maj, v.min, v.pat + 1)

\* range strings share the shape of versions: "1.1.0" is both a version and
\* the range only it satisfies, "^1.0.0" and "~1.0.0" carry an operator
Caret(a, b, c) == [k |-> "caret", maj |-> a, min |-> b, pat |-> c]
Tilde(a, b, c) == [k |-> "tilde", maj |-> a, min |-> b, pat |-> c]
Star == [k |-> "star", maj |-> 0, min |-> 0, pat |-> 0]

\* semver.satisfies(v, range) on release versions; a string that is no
\* range ("latest") is satisfied by nothing
Satisfies(v, range) ==
    CASE range.k = "star"  -> TRUE
      [] range.k = "sem"   -> v.maj = range.maj /\ v.min = range.min /\ v.pat = range.pat
      [] range.k = "tilde" -> /\ v.maj = range.maj
                              /\ v.min = range.min
                              /\ v.pat >= range.pat
      [] range.k = "caret" ->
            IF range.maj > 0
              THEN v.maj = range.maj /\ ~SemLess(v, range)
              ELSE IF range.min > 0
                THEN v.maj = 0 /\ v.min = range.min /\ v.pat >= range.pat
                ELSE v.maj = 0 /\ v.min = 0 /\ v.pat = range.pat
      [] OTHER -> FALSE

\* semver.maxSatisfying(versions, range): NoVer when nothing satisfies
maxSatisfying(versions, range) ==
    LET ok == {v \in versions : Satisfies(v, range)}
    IN  IF ok = {} THEN NoVer ELSE MaxVersion(ok)

(* -------------------------------- ids --------------------------------- *)

\* the scope each component name lives in
ScopeOf(n) == IF n \in {"a", "b"} THEN "s1" ELSE "s2"

\* a ComponentID / BitId: scope, name and a version (NoVer when absent)
Id(n, v) == [scope |-> ScopeOf(n), name |-> n, version |-> v]
NoId == [scope |-> "", name |-> "", version |-> NoVer]

\* BitId.changeVersion
changeVersion(id, v) == [id EXCEPT !.version = v]

\* BitId.isEqualWithoutVersion
isEqualWithoutVersion(x, y) == x.scope = y.scope /\ x.name = y.name

\* indices of a sequence, and its elements
Idx(s) == 1..Len(s)
Range1(s) == {s[i] : i \in Idx(s)}

\* BitIds.searchWithoutVersion: the first id of the list that names the same
\* component, NoId when there is none
searchWithoutVersion(ids, id) ==
    IF \E i \in Idx(ids) : isEqualWithoutVersion(ids[i], id)
      THEN ids[CHOOSE i \in Idx(ids) :
                 /\ isEqualWithoutVersion(ids[i], id)
                 /\ \A j \in 1..(i - 1) : ~isEqualWithoutVersion(ids[j], id)]
      ELSE NoId

(* ------------------------- the store's contents ----------------------- *)

\* the components of the model
StoredNames == {"a", "b", "c"}

\* package names: the one an edge was saved with, and the one the
\* dependency resolver derives for it
SavedPackageName(n) == <<"saved", n>>
ResolvedPackageName(n) == <<"pkg", n>>
NoPackageName == <<>>

\* a Dependency of a ConsumerComponent: { id, packageName }
Edge(n, v) == [id |-> Id(n, v), packageName |-> SavedPackageName(n)]

\* DependencyResolverAspect.id
DependencyResolverId == "teambit.dependencies/dependency-resolver"

\* an ExtensionDataEntry: a core aspect is named, a component extension
\* carries the BitId of that component
Extension(name, id, data) == [name |-> name, extensionId |-> id, data |-> data]

NoLog == [username |-> "", email |-> "", message |-> "", date |-> ""]

\* the version history of every component, as the remote knows it
InitialHistory ==
    [n \in StoredNames |->
        CASE n = "a" -> {Sem(1, 0, 0)}
          [] n = "b" -> {Sem(1, 0, 0), Sem(1, 1, 0), Sem(2, 0, 0)}
          [] OTHER   -> {Sem(1, 0, 0), Sem(2, 0, 0)}]

\* the ConsumerComponent of each stored component, at version v
StoredComponent(n, v) ==
    [scope |-> ScopeOf(n), name |-> n, version |-> v,
     dependencies |->
        CASE n = "a" -> <<Edge("b", Sem(1, 0, 0))>>
          [] n = "b" -> <<Edge("c", Sem(1, 0, 0))>>
          [] OTHER   -> <<Edge("b", Sem(1, 1, 0))>>,
     devDependencies |->
        CASE n = "a" -> <<Edge("c", Sem(1, 0, 0))>>
          [] n = "b" -> <<Edge("a", Sem(1, 0, 0))>>
          [] OTHER   -> <<>>,
     extensions |->
        CASE n = "a" -> <<Extension("", Id("c", Sem(1, 0, 0)), [config |-> "x"]),
                          Extension(DependencyResolverId, NoId,
                                    [dependencies |-> <<>>, policy |-> "p"])>>
          [] n = "b" -> <<Extension("", Id("a", Sem(1, 0, 0)), [config |-> "y"])>>
          [] OTHER   -> <<>>,
     flattenedDependencies |-> {},
     buildStatus |-> "none",
     log |-> NoLog]

\* ConsumerComponent.id: the BitId of the component at its current version
LegacyId(c) == [scope |-> c.scope, name |-> c.name, version |-> c.version]

(* ------------------------------ inputs -------------------------------- *)

\* versionToTag: absent, a release type or an exact version
NoVersionToTag == [kind |-> "absent", releaseType |-> "", exactVersion |-> NoVer]
ReleaseType(t) == [kind |-> "release", releaseType |-> t, exactVersion |-> NoVer]
ExactVersion(v) == [kind |-> "exact", releaseType |-> "", exactVersion |-> v]

\* 3.0.0 is above every known version, 1.0.0 is known of every component
VersionSpecs ==
    {NoVersionToTag, ReleaseType("minor"), ReleaseType("major"),
     ExactVersion(Sem(3, 0, 0)), ExactVersion(Sem(1, 0, 0))}

\* the dependency strings an item may request: "s1.b@^1.0.0", "s2.c" and
\* "s1.a@3.0.0" (a version "a" does not have)
DepStrs == {Id("b", Caret(1, 0, 0)), Id("c", NoVer), Id("a", Sem(3, 0, 0))}

SeqsUpTo(S, n) == UNION {[1..k -> S] : k \in 0..n}

Injective(s) == \A i, j \in Idx(s) : i # j => s[i] # s[j]

\* the lists of requested dependencies: no string twice
DepLists == {l \in SeqsUpTo(DepStrs, MaxDeps) : Injective(l)}

\* DepUpdateItemRaw
RawItem(n, deps, vtt) ==
    [componentId |-> Id(n, NoVer), dependencies |-> deps, versionToTag |-> vtt]

\* the orders a batch may list its components in: one item per component
Orderings ==
    {o \in SeqsUpTo(StoredNames, Cardinality(StoredNames)) : Len(o) >= 1 /\ Injective(o)}

\* the versions a componentId of a request may carry: "latest" or a release
\* every component has
IdVersions == {LATEST, Sem(1, 0, 0)}

\* the batches: every order with every choice of requested dependencies,
\* every order with every choice of versionToTag, one component named with a
\* version ("s1.b@1.0.0", "s1.b@latest"), and the request
\* [{ componentId: "a", dependencies: ["b@^1.0.0"], versionToTag: "minor" }]
RawBatches ==
    UNION {{[i \in Idx(o) |-> RawItem(o[i], deps[i], NoVersionToTag)] :
                deps \in [Idx(o) -> DepLists]} : o \in Orderings}
    \cup UNION {{[i \in Idx(o) |-> RawItem(o[i], <<>>, vtt[i])] :
                vtt \in [Idx(o) -> VersionSpecs]} : o \in Orderings}
    \cup {<<[RawItem(n, deps, NoVersionToTag) EXCEPT !.componentId = Id(n, v)]>> :
                n \in StoredNames, v \in IdVersions, deps \in DepLists}
    \cup {<<RawItem("a", <<Id("b", Caret(1, 0, 0))>>, ReleaseType("minor"))>>}

\* UpdateDepsOptions; username, email and message are left out of the request
Options(tag, multiple) ==
    [tag |-> tag, multiple |-> multiple, username |-> "", email |-> "", message |-> ""]

\* what the build pipelines may report: hasErrors of each TaskResultsList
PipeChoices == {<<FALSE, FALSE>>, <<FALSE, TRUE>>}

(* ------------------------------- state -------------------------------- *)

VARIABLES
    pc,             \* where updateDependenciesVersions stands
    idx,            \* the item a mapSeries loop is at
    raw,            \* depsUpdateItemsRaw
    updateDepsOptions,
    depsUpdateItems,
    history,        \* name -> versions known for the component
    noPackage,      \* the dependency resolver's missing package names
    persisted,      \* name -> the component as the flushed store holds it
    buffer,         \* name -> the component as written, not flushed yet
    persists,       \* how many times objects.persist() completed
    imported,       \* the calls of scope.import: <<ids, useCache>>
    nextSnap,       \* the next snap token getSnapToAdd hands out
    pipeResults,    \* hasErrors of each pipeline the builder returned
    pendingScopes,  \* the scopes whose PostSign action is in flight
    remoteActions,  \* the PostSign actions the remotes received
    exported,       \* the calls of exportMany: the ids of each
    result,         \* the UpdateDepsResult returned, NoResult before
    error,          \* what the run threw and in which step, NoError before
    trace,          \* the steps begun so far, in order
    loaded,         \* the components as parseDevUpdatesItems loaded them
    previous        \* what the earlier calls on this scope planned and resolved

vars == <<pc, idx, raw, updateDepsOptions, depsUpdateItems, history, noPackage,
          persisted, buffer, persists, imported, nextSnap, pipeResults,
          pendingScopes, remoteActions, exported, result, error, trace, loaded,
          previous>>

NoResult == [depsUpdateItems |-> <<>>, publishedPackages |-> <<>>,
             error |-> <<>>, returned |-> FALSE]

NoError == [kind |-> "none", step |-> ""]

\* the local scope with the components of names, each at its latest version
StoreOf(names, hist) == [n \in names |-> StoredComponent(n, MaxVersion(hist[n]))]

\* what a run may find: the local scope holds every component or lacks "c",
\* and the dependency resolver of a component may lack the package name of
\* one of its dependencies (a pair <<component, dependency>>)
Worlds ==
    {[local |-> StoredNames, noPackage |-> {}],
     [local |-> StoredNames, noPackage |-> {<<"a", "b">>}],
     [local |-> StoredNames, noPackage |-> {<<"b", "c">>}],
     [local |-> {"a", "b"}, noPackage |-> {}]}

InitRun ==
    /\ pc = "import"
    /\ idx = 1
    /\ depsUpdateItems = <<>>
    /\ buffer = <<>>
    /\ persists = 0
    /\ imported = <<>>
    /\ nextSnap = 1
    /\ pipeResults = <<>>
    /\ pendingScopes = {}
    /\ remoteActions = <<>>
    /\ exported = <<>>
    /\ result = NoResult
    /\ error = NoError
    /\ trace = <<>>
    /\ loaded = <<>>
    /\ previous = <<>>

Init ==
    /\ raw \in RawBatches
    /\ updateDepsOptions \in {Options(t, m) : t \in BOOLEAN, m \in BOOLEAN}
    /\ history = InitialHistory
    /\ \E w \in Worlds :
         /\ persisted = StoreOf(w.local, InitialHistory)
         /\ noPackage = w.noPackage
    /\ InitRun

(* ------------------------- helpers of the run ------------------------- *)

\* lodash flatten of a list of lists
RECURSIVE flatten(_)
flatten(ss) == IF ss = <<>> THEN <<>> ELSE Head(ss) \o flatten(Tail(ss))

\* Throw as it would be if the error were caught and the run went on to save
ThrowCaught(kind, step) ==
    /\ pc' = "save"
    /\ error' = [kind |-> kind, step |-> step]

\* a thrown error leaves updateDependenciesVersions: nothing catches it
Throw(kind, step) ==
    /\ pc' = "aborted"
    /\ error' = [kind |-> kind, step |-> step]

\* this.legacyComponents: the ConsumerComponent of every item
legacyComponents == [i \in Idx(depsUpdateItems) |-> depsUpdateItems[i].consumer]

(* ------------------------ step 1: importAllMissing -------------------- *)

\* idsToImport as it would be if the dependencies kept the version of the
\* request
idsToImportAsRequested ==
    LET componentIds == [i \in Idx(raw) |-> raw[i].componentId]
        dependenciesIds == [i \in Idx(raw) |-> raw[i].dependencies]
    IN  flatten(dependenciesIds)
            \o (IF updateDepsOptions.multiple THEN componentIds ELSE <<>>)

\* the ids handed to scope.import
idsToImport ==
    LET componentIds == [i \in Idx(raw) |-> raw[i].componentId]
        dependenciesIds ==
            [i \in Idx(raw) |->
                [j \in Idx(raw[i].dependencies) |->
                    changeVersion(raw[i].dependencies[j], LATEST)]]
    IN  flatten(dependenciesIds)
            \o (IF updateDepsOptions.multiple THEN componentIds ELSE <<>>)

\* scope.import either brings the objects or throws
importAllMissing ==
    /\ pc = "import"
    /\ trace' = Append(trace, "import")
    /\ imported' = Append(imported, [ids |-> idsToImport, useCache |-> FALSE])
    /\ \E ok \in BOOLEAN :
         IF ok THEN pc' = "parse" /\ error' = error
               ELSE Throw("CollaboratorError", "import")
    /\ UNCHANGED <<previous, idx, raw, updateDepsOptions, depsUpdateItems, history, noPackage,
                   persisted, buffer, persists, nextSnap, pipeResults,
                   pendingScopes, remoteActions, exported, result, loaded>>

(* --------------------- step 2: parseDevUpdatesItems ------------------- *)

\* scope.getExactVersionBySemverRange: NoVer stands for undefined
getExactVersionBySemverRange(id, range) == maxSatisfying(history[id.name], range)

\* getDependencyWithExactVersion as it would be without the default range "*"
getDependencyWithoutDefaultRange(depStr) ==
    LET exactVersion == getExactVersionBySemverRange(changeVersion(depStr, NoVer), depStr.version)
    IN  IF exactVersion = NoVer THEN NoId ELSE changeVersion(depStr, exactVersion)

\* getDependencyWithExactVersion as it would be if it asked for the latest
\* version whatever the string says
getDependencyAtLatest(depStr) ==
    LET exactVersion == getExactVersionBySemverRange(changeVersion(depStr, NoVer), Star)
    IN  IF exactVersion = NoVer THEN NoId ELSE changeVersion(depStr, exactVersion)

\* the id of depStr at the exact version its range resolves to; NoId when
\* no version satisfies the range (the function throws)
getDependencyWithExactVersion(depStr) ==
    LET compId == depStr
        range == IF compId.version = NoVer THEN Star ELSE compId.version
        id == changeVersion(compId, NoVer)
        exactVersion == getExactVersionBySemverRange(id, range)
    IN  IF exactVersion = NoVer THEN NoId ELSE changeVersion(compId, exactVersion)

\* scope.get finds a component the local scope holds, at the version the id
\* names when it names one
scopeHas(componentId) ==
    /\ componentId.name \in DOMAIN persisted
    /\ IsSem(componentId.version) => componentId.version \in history[componentId.name]

\* scope.get: the component at the version the id names, at the latest one
\* when it names none
scopeGet(componentId) ==
    LET c == persisted[componentId.name]
    IN  IF IsSem(componentId.version) /\ componentId.version # c.version
          THEN StoredComponent(componentId.name, componentId.version)
          ELSE c

\* parseItem as it would be if the dependencies were kept as requested
parseItemUnpinned(r) ==
    LET c == scopeGet(r.componentId)
    IN  [componentId |-> LegacyId(c),
         consumer |-> c,
         dependencies |-> r.dependencies,
         versionToTag |-> r.versionToTag]

\* one DepUpdateItem: the Component (its id and its ConsumerComponent), the
\* pinned dependencies and the versionToTag of the request
parseItem(r) ==
    LET c == scopeGet(r.componentId)
    IN  [componentId |-> LegacyId(c),
         consumer |-> c,
         dependencies |->
            [j \in Idx(r.dependencies) |-> getDependencyWithExactVersion(r.dependencies[j])],
         versionToTag |-> r.versionToTag]

\* what stops the parse of one raw item, "none" when nothing does
parseError(r) ==
    IF ~scopeHas(r.componentId) THEN "ComponentNotFound"
    ELSE IF \E j \in Idx(r.dependencies) :
               getDependencyWithExactVersion(r.dependencies[j]) = NoId
      THEN "UnsatisfiableRange"
      ELSE "none"

parseDevUpdatesItems ==
    /\ pc = "parse"
    /\ trace' = Append(trace, "parse")
    /\ LET bad == {i \in Idx(raw) : parseError(raw[i]) # "none"}
       IN  IF bad = {}
             THEN /\ depsUpdateItems' = [i \in Idx(raw) |-> parseItem(raw[i])]
                  /\ loaded' = [i \in Idx(raw) |-> scopeGet(raw[i].componentId)]
                  /\ pc' = "plan"
                  /\ error' = error
             ELSE /\ Throw(parseError(raw[CHOOSE i \in bad : \A j \in bad : i <= j]), "parse")
                  /\ UNCHANGED <<depsUpdateItems, loaded>>
    /\ idx' = 1
    /\ UNCHANGED <<previous, raw, updateDepsOptions, history, noPackage, persisted, buffer,
                   persists, imported, nextSnap, pipeResults, pendingScopes,
                   remoteActions, exported, result>>

(* ---------------------- step 3: updateFutureVersion -------------------- *)

\* getValidVersionOrReleaseType(str): a release type or an exact version
getValidVersionOrReleaseType(str) ==
    [releaseType |-> str.releaseType, exactVersion |-> str.exactVersion]

\* depUpdateItem.versionToTag || 'patch'
versionToTagOrPatch(item) ==
    IF item.versionToTag.kind = "absent" THEN ReleaseType("patch") ELSE item.versionToTag

\* ModelComponent.getVersionToAdd: the exact version when one is asked for,
\* else the next version of the release type; the result is above every
\* known version, and a request that cannot be is refused (NoVer)
getVersionToAdd(versions, releaseType, exactVersion) ==
    IF exactVersion # NoVer
      THEN IF \A v \in versions : SemLess(v, exactVersion) THEN exactVersion ELSE NoVer
      ELSE IF versions = {} THEN Sem(0, 0, 1)
           ELSE SemverInc(MaxVersion(versions), releaseType)

\* ModelComponent.getSnapToAdd: a fresh snap token
getSnapToAdd == Snap(nextSnap)

\* futureVersion as it would be if a snap token were derived from the place
\* of the item instead of being minted anew
futureVersionTokenOfPlace(item) ==
    IF updateDepsOptions.tag
      THEN LET t == getValidVersionOrReleaseType(versionToTagOrPatch(item))
           IN  getVersionToAdd(history[item.consumer.name], t.releaseType, t.exactVersion)
      ELSE Snap(idx)

\* futureVersion as it would be if option tag were not looked at
futureVersionAlwaysTag(item) ==
    LET t == getValidVersionOrReleaseType(versionToTagOrPatch(item))
    IN  getVersionToAdd(history[item.consumer.name], t.releaseType, t.exactVersion)

\* the version updateFutureVersion gives one item
futureVersion(item) ==
    IF updateDepsOptions.tag
      THEN LET t == getValidVersionOrReleaseType(versionToTagOrPatch(item))
           IN  getVersionToAdd(history[item.consumer.name], t.releaseType, t.exactVersion)
      ELSE getSnapToAdd

\* updateFutureVersion as it would be if it returned after its first item
updateFutureVersionFirstOnly ==
    /\ pc = "plan"
    /\ trace' = IF idx = 1 THEN Append(trace, "plan") ELSE trace
    /\ LET v == futureVersion(depsUpdateItems[idx])
       IN  IF v = NoVer
             THEN /\ Throw("CollaboratorError", "plan")
                  /\ UNCHANGED <<depsUpdateItems, idx, nextSnap>>
             ELSE /\ depsUpdateItems' =
                        [depsUpdateItems EXCEPT ![idx].consumer.version = v]
                  /\ nextSnap' = IF updateDepsOptions.tag THEN nextSnap ELSE nextSnap + 1
                  /\ error' = error
                  /\ pc' = "rewrite" /\ idx' = 1
    /\ UNCHANGED <<previous, raw, updateDepsOptions, history, noPackage, persisted,
                   buffer, persists, imported, pipeResults, pendingScopes,
                   remoteActions, exported, result, loaded>>

\* one turn of the mapSeries of updateFutureVersion
updateFutureVersion ==
    /\ pc = "plan"
    /\ trace' = IF idx = 1 THEN Append(trace, "plan") ELSE trace
    /\ LET v == futureVersion(depsUpdateItems[idx])
       IN  IF v = NoVer
             THEN /\ Throw("CollaboratorError", "plan")
                  /\ UNCHANGED <<depsUpdateItems, idx, nextSnap>>
             ELSE /\ depsUpdateItems' =
                        [depsUpdateItems EXCEPT ![idx].consumer.version = v]
                  /\ nextSnap' = IF updateDepsOptions.tag THEN nextSnap ELSE nextSnap + 1
                  /\ error' = error
                  /\ IF idx = Len(depsUpdateItems)
                       THEN pc' = "rewrite" /\ idx' = 1
                       ELSE pc' = pc /\ idx' = idx + 1
    /\ UNCHANGED <<previous, raw, updateDepsOptions, history, noPackage, persisted, buffer,
                   persists, imported, pipeResults, pendingScopes, remoteActions,
                   exported, result, loaded>>

(* ------------------------- step 4: updateAllDeps ---------------------- *)

\* const currentBitIds = components.map((c) => c.id._legacy)
currentBitIds == [i \in Idx(depsUpdateItems) |-> depsUpdateItems[i].componentId]

\* dependenciesList.findDependency(depIdStr)?.getPackageName?.()
getPackageName(componentName, depId) ==
    IF <<componentName, depId.name>> \in noPackage
      THEN NoPackageName
      ELSE ResolvedPackageName(depId.name)

\* rewriteEdges as it would be if the package name were set on every edge,
\* matched or not
rewriteEdgesAndEveryPackageName(c, updatedIds) ==
    LET deps == c.dependencies \o c.devDependencies
        matched(j) == searchWithoutVersion(updatedIds, deps[j].id) # NoId
        throws(j) == matched(j) /\ getPackageName(c.name, deps[j].id) = NoPackageName
        bad == {j \in Idx(deps) : throws(j)}
        stop == IF bad = {} THEN Len(deps) + 1 ELSE CHOOSE j \in bad : \A k \in bad : j <= k
        after == [j \in Idx(deps) |->
                    IF j < stop
                      THEN [id |-> IF matched(j)
                                     THEN searchWithoutVersion(updatedIds, deps[j].id)
                                     ELSE deps[j].id,
                            packageName |-> getPackageName(c.name, deps[j].id)]
                      ELSE deps[j]]
    IN  [dependencies |-> SubSeq(after, 1, Len(c.dependencies)),
         devDependencies |-> SubSeq(after, Len(c.dependencies) + 1, Len(deps)),
         threw |-> bad # {}]

\* the deps.forEach of updateDependenciesVersionsOfComponent: the edges after
\* it, dependencies before devDependencies, and whether it threw; an edge
\* before the one that throws is already rewritten
rewriteEdges(c, updatedIds) ==
    LET deps == c.dependencies \o c.devDependencies
        matched(j) == searchWithoutVersion(updatedIds, deps[j].id) # NoId
        throws(j) == matched(j) /\ getPackageName(c.name, deps[j].id) = NoPackageName
        bad == {j \in Idx(deps) : throws(j)}
        stop == IF bad = {} THEN Len(deps) + 1 ELSE CHOOSE j \in bad : \A k \in bad : j <= k
        after == [j \in Idx(deps) |->
                    IF j < stop /\ matched(j)
                      THEN [id |-> searchWithoutVersion(updatedIds, deps[j].id),
                            packageName |-> getPackageName(c.name, deps[j].id)]
                      ELSE deps[j]]
    IN  [dependencies |-> SubSeq(after, 1, Len(c.dependencies)),
         devDependencies |-> SubSeq(after, Len(c.dependencies) + 1, Len(deps)),
         threw |-> bad # {}]

\* the extensions.forEach of updateDependenciesVersionsOfComponent
rewriteExtensions(extensions, updatedIds) ==
    [j \in Idx(extensions) |->
        IF extensions[j].extensionId = NoId THEN extensions[j]
        ELSE IF searchWithoutVersion(updatedIds, extensions[j].extensionId) # NoId
          THEN [extensions[j] EXCEPT
                  !.extensionId = searchWithoutVersion(updatedIds, extensions[j].extensionId)]
          ELSE extensions[j]]

\* updateDependenciesVersionsOfComponent as it would be if the extensions
\* were rewritten before the edges
updateExtensionsFirst(c, dependencies, bitIds) ==
    LET updatedIds == bitIds \o dependencies
        e == rewriteEdges(c, updatedIds)
    IN  [consumer |-> [c EXCEPT !.dependencies = e.dependencies,
                                !.devDependencies = e.devDependencies,
                                !.extensions = rewriteExtensions(c.extensions, updatedIds)],
         threw |-> e.threw]

\* updateDependenciesVersionsOfComponent as it would be if the pinned
\* dependencies came before the ids of the batch in updatedIds
updateWithDependenciesFirst(c, dependencies, bitIds) ==
    LET updatedIds == dependencies \o bitIds
        e == rewriteEdges(c, updatedIds)
        c1 == [c EXCEPT !.dependencies = e.dependencies,
                        !.devDependencies = e.devDependencies]
    IN  IF e.threw
          THEN [consumer |-> c1, threw |-> TRUE]
          ELSE [consumer |-> [c1 EXCEPT !.extensions = rewriteExtensions(c.extensions, updatedIds)],
                threw |-> FALSE]

\* the ConsumerComponent after updateDependenciesVersionsOfComponent, and
\* whether the call threw
updateDependenciesVersionsOfComponent(c, dependencies, bitIds) ==
    LET updatedIds == bitIds \o dependencies
        e == rewriteEdges(c, updatedIds)
        c1 == [c EXCEPT !.dependencies = e.dependencies,
                        !.devDependencies = e.devDependencies]
    IN  IF e.threw
          THEN [consumer |-> c1, threw |-> TRUE]
          ELSE [consumer |-> [c1 EXCEPT !.extensions = rewriteExtensions(c.extensions, updatedIds)],
                threw |-> FALSE]

\* dependencyResolver.extractDepsFromLegacy: the dependency data of the
\* component as it now is
extractDepsFromLegacy(c) ==
    [j \in Idx(c.dependencies) |->
        [id |-> c.dependencies[j].id, packageName |-> c.dependencies[j].packageName,
         lifecycle |-> "runtime"]]
    \o [j \in Idx(c.devDependencies) |->
        [id |-> c.devDependencies[j].id, packageName |-> c.devDependencies[j].packageName,
         lifecycle |-> "dev"]]

\* Object.assign(target, source): the top level of source over target
ObjectAssign(target, source) ==
    [f \in DOMAIN target \cup DOMAIN source |->
        IF f \in DOMAIN source THEN source[f] ELSE target[f]]

\* extensions.findExtension(extId): the place of the extension, 0 when absent
findExtension(extensions, extId) ==
    IF \E j \in Idx(extensions) : extensions[j].name = extId
      THEN CHOOSE j \in Idx(extensions) :
             /\ extensions[j].name = extId
             /\ \A k \in 1..(j - 1) : extensions[k].name # extId
      ELSE 0

\* updateDependencyResolver as it would be if the data of the existing
\* extension were replaced instead of merged
updateDependencyResolverReplacingData(c) ==
    LET data == [dependencies |-> extractDepsFromLegacy(c)]
        at == findExtension(c.extensions, DependencyResolverId)
    IN  IF at # 0
          THEN [c EXCEPT !.extensions[at].data = data]
          ELSE [c EXCEPT !.extensions = Append(@, Extension(DependencyResolverId, NoId, data))]

\* the ConsumerComponent after updateDependencyResolver
updateDependencyResolver(c) ==
    LET data == [dependencies |-> extractDepsFromLegacy(c)]
        at == findExtension(c.extensions, DependencyResolverId)
    IN  IF at # 0
          THEN [c EXCEPT !.extensions[at].data = ObjectAssign(@, data)]
          ELSE [c EXCEPT !.extensions = Append(@, Extension(DependencyResolverId, NoId, data))]

\* updateAllDeps as it would be if every component were rewritten with the
\* pinned dependencies of all the items
updateAllDepsWithEveryDependency ==
    /\ pc = "rewrite"
    /\ trace' = IF idx = 1 THEN Append(trace, "rewrite") ELSE trace
    /\ LET item == depsUpdateItems[idx]
           every == flatten([i \in Idx(depsUpdateItems) |-> depsUpdateItems[i].dependencies])
           r == updateDependenciesVersionsOfComponent(item.consumer, every, currentBitIds)
       IN  IF r.threw
             THEN /\ depsUpdateItems' = [depsUpdateItems EXCEPT ![idx].consumer = r.consumer]
                  /\ Throw("MissingPackageName", "rewrite")
                  /\ idx' = idx
             ELSE /\ depsUpdateItems' =
                        [depsUpdateItems EXCEPT
                            ![idx].consumer = updateDependencyResolver(r.consumer)]
                  /\ error' = error
                  /\ IF idx = Len(depsUpdateItems)
                       THEN pc' = "stamp" /\ idx' = 1
                       ELSE pc' = pc /\ idx' = idx + 1
    /\ UNCHANGED <<previous, raw, updateDepsOptions, history, noPackage, persisted,
                   buffer, persists, imported, nextSnap, pipeResults, pendingScopes,
                   remoteActions, exported, result, loaded>>

\* one turn of the mapSeries of updateAllDeps
updateAllDeps ==
    /\ pc = "rewrite"
    /\ trace' = IF idx = 1 THEN Append(trace, "rewrite") ELSE trace
    /\ LET item == depsUpdateItems[idx]
           r == updateDependenciesVersionsOfComponent(item.consumer, item.dependencies,
                                                      currentBitIds)
       IN  IF r.threw
             THEN /\ depsUpdateItems' = [depsUpdateItems EXCEPT ![idx].consumer = r.consumer]
                  /\ Throw("MissingPackageName", "rewrite")
                  /\ idx' = idx
             ELSE /\ depsUpdateItems' =
                        [depsUpdateItems EXCEPT ![idx].consumer = updateDependencyResolver(r.consumer)]
                  /\ error' = error
                  /\ IF idx = Len(depsUpdateItems)
                       THEN pc' = "stamp" /\ idx' = 1
                       ELSE pc' = pc /\ idx' = idx + 1
    /\ UNCHANGED <<previous, raw, updateDepsOptions, history, noPackage, persisted, buffer,
                   persists, imported, nextSnap, pipeResults, pendingScopes,
                   remoteActions, exported, result, loaded>>

(* ------------- steps 5 to 7: log, flattened, status, staging ---------- *)

\* addLogToComponents, on one component
addLogToComponents(c) ==
    [c EXCEPT !.log =
        [username |-> IF updateDepsOptions.username # "" THEN updateDepsOptions.username ELSE "ci",
         email |-> IF updateDepsOptions.email # "" THEN updateDepsOptions.email ELSE "ci@bit.dev",
         message |-> IF updateDepsOptions.message # "" THEN updateDepsOptions.message
                     ELSE "update-dependencies",
         date |-> "now"]]

\* addFlattenedDependenciesToComponents, on one component: the ids its
\* edges now carry
addFlattenedDependencies(c) ==
    [c EXCEPT !.flattenedDependencies =
        {c.dependencies[j].id : j \in Idx(c.dependencies)}
            \cup {c.devDependencies[j].id : j \in Idx(c.devDependencies)}]

\* addBuildStatus, on one component
addBuildStatus(c) == [c EXCEPT !.buildStatus = "pending"]

\* lines 73 to 75: the log, the flattened dependencies (which may throw)
\* and the pending status
stampComponents ==
    /\ pc = "stamp"
    /\ trace' = Append(trace, "stamp")
    /\ \E ok \in BOOLEAN :
         IF ok
           THEN /\ depsUpdateItems' =
                      [i \in Idx(depsUpdateItems) |->
                          [depsUpdateItems[i] EXCEPT !.consumer =
                              addBuildStatus(addFlattenedDependencies(addLogToComponents(@)))]]
                /\ pc' = "stage"
                /\ error' = error
           ELSE /\ depsUpdateItems' =
                      [i \in Idx(depsUpdateItems) |->
                          [depsUpdateItems[i] EXCEPT !.consumer = addLogToComponents(@)]]
                /\ Throw("CollaboratorError", "stamp")
    /\ UNCHANGED <<previous, idx, raw, updateDepsOptions, history, noPackage, persisted, buffer,
                   persists, imported, nextSnap, pipeResults, pendingScopes,
                   remoteActions, exported, result, loaded>>

\* sources.addSourceFromScope and sources.enrichSource write a component
\* into the store's buffer; nothing is flushed
writeSource(buf, c) == [n \in DOMAIN buf \cup {c.name} |-> IF n = c.name THEN c ELSE buf[n]]

RECURSIVE writeSources(_, _)
writeSources(buf, cs) ==
    IF cs = <<>> THEN buf ELSE writeSources(writeSource(buf, Head(cs)), Tail(cs))

\* addComponentsToScope: every component is written into the buffer
addComponentsToScope == writeSources(buffer, legacyComponents)

\* updateComponents: each item's Component is built anew from its
\* ConsumerComponent, so its id now is the id of that component
updateComponents ==
    [i \in Idx(depsUpdateItems) |->
        [depsUpdateItems[i] EXCEPT !.componentId = LegacyId(depsUpdateItems[i].consumer)]]

\* stageComponents as it would be if the store were flushed right after the
\* components are added to it
stageComponentsFlushed ==
    /\ pc = "stage"
    /\ trace' = Append(trace, "stage")
    /\ \E ok \in BOOLEAN :
         IF ok
           THEN /\ buffer' = addComponentsToScope
                /\ persisted' = [n \in DOMAIN persisted |->
                                    IF n \in DOMAIN buffer' THEN buffer'[n] ELSE persisted[n]]
                /\ depsUpdateItems' = updateComponents
                /\ pc' = "build"
                /\ error' = error
           ELSE /\ Throw("CollaboratorError", "stage")
                /\ UNCHANGED <<buffer, depsUpdateItems, persisted>>
    /\ UNCHANGED <<previous, idx, raw, updateDepsOptions, history, noPackage,
                   persists, imported, nextSnap, pipeResults, pendingScopes,
                   remoteActions, exported, result, loaded>>

\* lines 76 and 77; addSourceFromScope may throw
stageComponents ==
    /\ pc = "stage"
    /\ trace' = Append(trace, "stage")
    /\ \E ok \in BOOLEAN :
         IF ok
           THEN /\ buffer' = addComponentsToScope
                /\ depsUpdateItems' = updateComponents
                /\ pc' = "build"
                /\ error' = error
           ELSE /\ Throw("CollaboratorError", "stage")
                /\ UNCHANGED <<buffer, depsUpdateItems>>
    /\ UNCHANGED <<previous, idx, raw, updateDepsOptions, history, noPackage, persisted,
                   persists, imported, nextSnap, pipeResults, pendingScopes,
                   remoteActions, exported, result, loaded>>

(* --------------------------- step 8: the build ------------------------ *)

\* builder.tagListener(components, { throwOnError: true }, ...): it returns
\* the results of its pipelines, or it throws the error of a failed task
tagListener ==
    /\ pc = "build"
    /\ trace' = Append(trace, "build")
    /\ \/ /\ \E pipes \in PipeChoices : pipeResults' = pipes
          /\ pc' = "save"
          /\ error' = error
       \/ /\ Throw("BuildPipelineError", "build")
          /\ UNCHANGED pipeResults
    /\ UNCHANGED <<previous, idx, raw, updateDepsOptions, depsUpdateItems, history, noPackage,
                   persisted, buffer, persists, imported, nextSnap, pendingScopes,
                   remoteActions, exported, result, loaded>>

(* ---------------------- steps 9 and 10: the commit -------------------- *)

\* pipeWithError as it would be if only the first pipeline were looked at
firstPipeWithError == IF pipeResults # <<>> /\ pipeResults[1] THEN 1 ELSE 0

\* pipeResults.find((pipe) => pipe.hasErrors()): its place, 0 when none
pipeWithError ==
    IF \E i \in Idx(pipeResults) : pipeResults[i]
      THEN CHOOSE i \in Idx(pipeResults) :
             pipeResults[i] /\ \A j \in 1..(i - 1) : ~pipeResults[j]
      ELSE 0

\* buildStatus as it would be if the pipelines' errors were not looked at
buildStatusAlwaysSucceed == "succeed"

\* const buildStatus = pipeWithError ? BuildStatus.Failed : BuildStatus.Succeed
buildStatus == IF pipeWithError # 0 THEN "failed" ELSE "succeed"

\* objects.persist(): what the buffer holds becomes the flushed store
persist(buf) ==
    [n \in DOMAIN persisted |-> IF n \in DOMAIN buf THEN buf[n] ELSE persisted[n]]

\* the flushed objects carry the version each component was written at: a
\* release becomes part of the history of its component
addVersions(hist, buf) ==
    [n \in DOMAIN hist |->
        IF n \in DOMAIN buf /\ IsSem(buf[n].version)
          THEN hist[n] \cup {buf[n].version}
          ELSE hist[n]]

\* saveDataIntoLocalScope as it would be if the store were flushed after
\* every component
saveDataIntoLocalScopeFlushEach ==
    /\ pc = "save"
    /\ trace' = IF idx = 1 THEN Append(trace, "save") ELSE trace
    /\ depsUpdateItems' = [depsUpdateItems EXCEPT ![idx].consumer.buildStatus = buildStatus]
    /\ buffer' = writeSource(buffer, depsUpdateItems'[idx].consumer)
    /\ persisted' = persist(buffer')
    /\ history' = addVersions(history, buffer')
    /\ persists' = persists + 1
    /\ error' = error
    /\ IF idx = Len(depsUpdateItems)
         THEN pc' = "finalize" /\ idx' = 1
         ELSE pc' = pc /\ idx' = idx + 1
    /\ UNCHANGED <<previous, raw, updateDepsOptions, noPackage, imported, nextSnap,
                   pipeResults, pendingScopes, remoteActions, exported, result, loaded>>

\* one turn of the mapSeries of saveDataIntoLocalScope(buildStatus): the
\* component gets the status and enrichSource writes it, or throws
saveDataIntoLocalScope ==
    /\ pc = "save"
    /\ trace' = IF idx = 1 THEN Append(trace, "save") ELSE trace
    /\ depsUpdateItems' = [depsUpdateItems EXCEPT ![idx].consumer.buildStatus = buildStatus]
    /\ \E ok \in BOOLEAN :
         IF ok
           THEN /\ buffer' = writeSource(buffer, depsUpdateItems'[idx].consumer)
                /\ error' = error
                /\ IF idx = Len(depsUpdateItems)
                     THEN pc' = "flush" /\ idx' = 1
                     ELSE pc' = pc /\ idx' = idx + 1
           ELSE /\ Throw("CollaboratorError", "save")
                /\ UNCHANGED <<buffer, idx>>
    /\ UNCHANGED <<previous, raw, updateDepsOptions, history, noPackage, persisted,
                   persists, imported, nextSnap, pipeResults, pendingScopes,
                   remoteActions, exported, result, loaded>>

\* the last statement of saveDataIntoLocalScope: objects.persist() flushes
\* the buffer, or throws
persistObjects ==
    /\ pc = "flush"
    /\ \E ok \in BOOLEAN :
         IF ok
           THEN /\ persisted' = persist(buffer)
                /\ history' = addVersions(history, buffer)
                /\ persists' = persists + 1
                /\ pc' = "finalize"
                /\ error' = error
           ELSE /\ Throw("PersistenceError", "save")
                /\ UNCHANGED <<persisted, history, persists>>
    /\ UNCHANGED <<previous, idx, raw, updateDepsOptions, depsUpdateItems, noPackage,
                   buffer, imported, nextSnap, pipeResults, pendingScopes,
                   remoteActions, exported, result, trace, loaded>>

\* the ids export and clearScopesCaches work on: legacyComponents.map((c) => c.id)
batchIds == [i \in Idx(depsUpdateItems) |-> LegacyId(depsUpdateItems[i].consumer)]

\* export as it would be if it were called whatever option multiple says
exportAlways ==
    /\ pc = "finalize"
    /\ trace' = Append(trace, "export")
    /\ exported' = Append(exported, batchIds)
    /\ pc' = IF updateDepsOptions.multiple THEN "return" ELSE pc
    /\ UNCHANGED <<previous, idx, raw, updateDepsOptions, depsUpdateItems, history,
                   noPackage, persisted, buffer, persists, imported, nextSnap,
                   pipeResults, pendingScopes, remoteActions, result, error, loaded>>

\* export(): exportMany with the ids of the batch
export ==
    /\ pc = "finalize"
    /\ updateDepsOptions.multiple
    /\ trace' = Append(trace, "export")
    /\ exported' = Append(exported, batchIds)
    /\ pc' = "return"
    /\ UNCHANGED <<previous, idx, raw, updateDepsOptions, depsUpdateItems, history, noPackage,
                   persisted, buffer, persists, imported, nextSnap, pipeResults,
                   pendingScopes, remoteActions, result, error, loaded>>

\* bitIds.toGroupByScopeName: the ids of one scope, in the order of the batch
RECURSIVE idsOfScope(_, _)
idsOfScope(ids, scopeName) ==
    IF ids = <<>> THEN <<>>
    ELSE (IF Head(ids).scope = scopeName THEN <<Head(ids)>> ELSE <<>>)
            \o idsOfScope(Tail(ids), scopeName)

\* clearScopesCaches up to the Promise.all: one action per scope is started
clearScopesCaches ==
    /\ pc = "finalize"
    /\ ~updateDepsOptions.multiple
    /\ trace' = Append(trace, "clear")
    /\ pendingScopes' = {batchIds[i].scope : i \in Idx(batchIds)}
    /\ pc' = "clearing"
    /\ UNCHANGED <<previous, idx, raw, updateDepsOptions, depsUpdateItems, history, noPackage,
                   persisted, buffer, persists, imported, nextSnap, pipeResults,
                   remoteActions, exported, result, error, loaded>>

\* remote.action(PostSign.name, { ids }) of one scope completes
remoteAction ==
    /\ pc = "clearing"
    /\ \E scopeName \in pendingScopes :
         /\ remoteActions' =
               Append(remoteActions, [scope |-> scopeName, ids |-> idsOfScope(batchIds, scopeName)])
         /\ pendingScopes' = pendingScopes \ {scopeName}
    /\ UNCHANGED <<previous, pc, idx, raw, updateDepsOptions, depsUpdateItems, history, noPackage,
                   persisted, buffer, persists, imported, nextSnap, pipeResults,
                   exported, result, error, trace, loaded>>

\* clearScopesCachesDone as it would be if the actions were not awaited
clearScopesCachesNotAwaited ==
    /\ pc = "clearing"
    /\ pc' = "return"
    /\ UNCHANGED <<previous, idx, raw, updateDepsOptions, depsUpdateItems, history,
                   noPackage, persisted, buffer, persists, imported, nextSnap,
                   pipeResults, pendingScopes, remoteActions, exported, result, error,
                   trace, loaded>>

\* the Promise.all resolves once every action has completed
clearScopesCachesDone ==
    /\ pc = "clearing"
    /\ pendingScopes = {}
    /\ pc' = "return"
    /\ UNCHANGED <<previous, idx, raw, updateDepsOptions, depsUpdateItems, history, noPackage,
                   persisted, buffer, persists, imported, nextSnap, pipeResults,
                   pendingScopes, remoteActions, exported, result, error, trace, loaded>>

\* getErrorMessageFormatted of the pipeline at place i
getErrorMessageFormatted(i) == <<"errors of pipeline", i>>
Null == <<>>

\* lines 95 to 99: the result
returnResult ==
    /\ pc = "return"
    /\ result' = [depsUpdateItems |-> depsUpdateItems,
                  publishedPackages |-> <<>>,
                  error |-> IF pipeWithError # 0 THEN getErrorMessageFormatted(pipeWithError)
                            ELSE Null,
                  returned |-> TRUE]
    /\ pc' = "done"
    /\ UNCHANGED <<previous, idx, raw, updateDepsOptions, depsUpdateItems, history, noPackage,
                   persisted, buffer, persists, imported, nextSnap, pipeResults,
                   pendingScopes, remoteActions, exported, error, trace, loaded>>

(* --------------------------- specification --------------------------- *)

Next ==
    \/ importAllMissing
    \/ parseDevUpdatesItems
    \/ updateFutureVersion
    \/ updateAllDeps
    \/ stampComponents
    \/ stageComponents
    \/ tagListener
    \/ saveDataIntoLocalScope
    \/ persistObjects
    \/ export
    \/ clearScopesCaches
    \/ remoteAction
    \/ clearScopesCachesDone
    \/ returnResult

Spec == Init /\ [][Next]_vars

(* ------------------- a second call on the same scope ----------------- *)

\* what a call planned and resolved: the version of every item and its
\* pinned dependencies
Summary ==
    [versions |-> [i \in Idx(depsUpdateItems) |-> depsUpdateItems[i].consumer.version],
     dependencies |-> [i \in Idx(depsUpdateItems) |-> depsUpdateItems[i].dependencies]]

\* updateDependenciesVersions is called again once it has returned, with the
\* same request and options, on the scope the call before left
rerun ==
    /\ pc = "done"
    /\ Len(previous) < MaxRuns - 1
    /\ previous' = Append(previous, Summary)
    /\ pc' = "import"
    /\ idx' = 1
    /\ depsUpdateItems' = <<>>
    /\ buffer' = <<>>
    /\ persists' = 0
    /\ imported' = <<>>
    /\ pipeResults' = <<>>
    /\ pendingScopes' = {}
    /\ remoteActions' = <<>>
    /\ exported' = <<>>
    /\ result' = NoResult
    /\ error' = NoError
    /\ trace' = <<>>
    /\ loaded' = <<>>
    /\ UNCHANGED <<raw, updateDepsOptions, history, noPackage, persisted, nextSnap>>

\* the requests of at most two items, on a scope that holds every component
\* and a dependency resolver that knows every package name
InitRerun ==
    /\ raw \in {b \in RawBatches : Len(b) <= 2}
    /\ updateDepsOptions \in {Options(t, m) : t \in BOOLEAN, m \in BOOLEAN}
    /\ history = InitialHistory
    /\ persisted = StoreOf(StoredNames, InitialHistory)
    /\ noPackage = {}
    /\ InitRun

NextRerun == Next \/ rerun

SpecRerun == InitRerun /\ [][NextRerun]_vars

(* ------------- resolution over many ranges and histories -------------- *)

\* the versions a history of "b" is drawn from
WideVersions ==
    {Sem(0, 1, 0), Sem(0, 1, 1), Sem(1, 0, 0), Sem(1, 0, 1), Sem(1, 1, 0), Sem(2, 0, 0)}

\* what a dependency string on "b" may carry after its name: nothing, "*",
\* "latest", or a version, ^version or ~version
WideRanges ==
    {NoVer, Star, LATEST}
    \cup WideVersions \cup {Sem(3, 0, 0)}
    \cup {Caret(v.maj, v.min, v.pat) : v \in WideVersions}
    \cup {Tilde(v.maj, v.min, v.pat) : v \in WideVersions}

\* a run that updates "a" alone and requests one dependency on "b", whose
\* history is any set of versions
InitResolve ==
    /\ \E range \in WideRanges :
         raw = <<RawItem("a", <<Id("b", range)>>, NoVersionToTag)>>
    /\ updateDepsOptions \in {Options(t, m) : t \in BOOLEAN, m \in BOOLEAN}
    /\ \E versions \in SUBSET WideVersions :
         history = [InitialHistory EXCEPT !["b"] = versions]
    /\ persisted = StoreOf({"a"}, InitialHistory)
    /\ noPackage \in {{}, {<<"a", "b">>}}
    /\ InitRun

SpecResolve == InitResolve /\ [][Next]_vars

(* ------------------------ where a run stands -------------------------- *)

\* the steps in the order updateDependenciesVersions takes them
Rank(step) ==
    CASE step = "import"   -> 1
      [] step = "parse"    -> 2
      [] step = "plan"     -> 3
      [] step = "rewrite"  -> 4
      [] step = "stamp"    -> 5
      [] step = "stage"    -> 6
      [] step = "build"    -> 7
      [] step = "save"     -> 8
      [] step = "flush"    -> 8
      [] step = "finalize" -> 9
      [] step = "clearing" -> 10
      [] step = "return"   -> 11
      [] OTHER             -> 12

\* the step the run is at, or was at when it threw
Position == IF pc = "aborted" THEN error.step ELSE pc

Aborted == pc = "aborted"

\* the items exist once parseDevUpdatesItems has returned
Parsed == Rank(Position) > Rank("parse")

\* every item has been through updateFutureVersion
Planned == Rank(Position) > Rank("plan")

\* the turn of updateAllDeps for item i has completed
RewriteDone(i) ==
    \/ Rank(Position) > Rank("rewrite")
    \/ Position = "rewrite" /\ i < idx

\* some pipeline the builder returned reports errors
SomePipeHasErrors == \E i \in Idx(pipeResults) : pipeResults[i]

\* the edges of a component, dependencies before devDependencies
EdgesOf(c) == c.dependencies \o c.devDependencies

\* the index of a component in the batch
Items == Idx(depsUpdateItems)

(* ------------------------------ claims -------------------------------- *)

\* the edges of batch member i that point at batch member j
EdgesOnto(i, j) ==
    {e \in Range1(EdgesOf(depsUpdateItems[i].consumer)) :
        isEqualWithoutVersion(e.id, LegacyId(depsUpdateItems[j].consumer))}

\* C1: once the rewrite of batch member A has completed, each of A's runtime
\* and development edges onto another batch member B carries the version the
\* planning step assigned to B.
C1_EdgeCarriesPlannedVersion ==
    \A i, j \in Items :
        (i # j /\ RewriteDone(i)) =>
            \A e \in EdgesOnto(i, j) :
                e.id.version = depsUpdateItems[j].consumer.version

\* the local scope as the run found it
StoreAtStart == StoreOf(DOMAIN persisted, InitialHistory)

\* every component of the batch is in the flushed store as the run left it,
\* with the build status st
CommittedWith(st) ==
    \A i \in Items :
        /\ persisted[depsUpdateItems[i].consumer.name] = depsUpdateItems[i].consumer
        /\ depsUpdateItems[i].consumer.buildStatus = st

\* C2 as stated: a build failure is never thrown, the run goes on to the commit.
C2_BuildFailureNotThrown ==
    ~(Aborted /\ error.kind = "BuildPipelineError")

\* C2, amended: when the builder returns its pipelines' results the run goes on
\* to the commit, and the flushed store then holds every component of the
\* batch with the status Failed if some pipeline reports errors and Succeeded
\* if none does; when the builder throws, the run stops there and nothing is
\* flushed.
C2_BuildOutcome ==
    /\ (pipeResults # <<>>) =>
          /\ Rank(Position) >= Rank("save")
          /\ persists > 0 => CommittedWith(IF SomePipeHasErrors THEN "failed" ELSE "succeed")
    /\ (Aborted /\ error.kind = "BuildPipelineError") =>
          /\ error.step = "build"
          /\ persists = 0
          /\ persisted = StoreAtStart
          /\ ~result.returned

C2_Witness ==
    /\ pc = "done"
    /\ SomePipeHasErrors
    /\ persists = 1
    /\ CommittedWith("failed")

\* the steps begun so far are the first steps of the run, once each
StepOrder == <<"import", "parse", "plan", "rewrite", "stamp", "stage", "build", "save">>

\* C3: a run that throws in one of the steps 1 to 7 stops in that step: the
\* steps before it ran once each and none after it began, the store was never
\* flushed and is as the run found it, nothing was exported, no remote action
\* was sent, no result is returned, and nothing more can happen.
C3_FailFast ==
    /\ (error # NoError) = Aborted
    /\ (Aborted /\ Rank(error.step) <= Rank("stage")) =>
          /\ error.kind \in {"CollaboratorError", "ComponentNotFound",
                             "UnsatisfiableRange", "MissingPackageName"}
          /\ trace = SubSeq(StepOrder, 1, Rank(error.step))
          /\ persists = 0
          /\ persisted = StoreAtStart
          /\ exported = <<>>
          /\ remoteActions = <<>>
          /\ pendingScopes = {}
          /\ ~result.returned
          /\ ~ENABLED Next

C3_Witness ==
    /\ Aborted
    /\ error = [kind |-> "MissingPackageName", step |-> "rewrite"]
    /\ idx = 2

\* item i has the edges and the extensions it was loaded with
Untouched(i) ==
    /\ depsUpdateItems[i].consumer.dependencies = loaded[i].dependencies
    /\ depsUpdateItems[i].consumer.devDependencies = loaded[i].devDependencies
    /\ depsUpdateItems[i].consumer.extensions = loaded[i].extensions

\* the ids the rewrite of item i looks an edge up in
LookupOf(i) == currentBitIds \o depsUpdateItems[i].dependencies

\* every edge of item i that the lookup matches carries the matched id and
\* the package name of the dependency resolver
MatchedEdgesRewritten(i) ==
    \A j \in Idx(EdgesOf(loaded[i])) :
        LET before == EdgesOf(loaded[i])[j]
            now == EdgesOf(depsUpdateItems[i].consumer)[j]
        IN  (\E k \in Idx(LookupOf(i)) : isEqualWithoutVersion(LookupOf(i)[k], before.id)) =>
                /\ \E k \in Idx(LookupOf(i)) : now.id = LookupOf(i)[k]
                /\ now.packageName = ResolvedPackageName(before.id.name)

MissingPackageNameThrown == Aborted /\ error.kind = "MissingPackageName"

\* C4 as stated: when a rewrite throws MissingPackageName, every other
\* component of the batch is as it was before the rewrite step began.
C4_OthersAsLoaded ==
    MissingPackageNameThrown => \A i \in Items : i # idx => Untouched(i)

\* C4, amended: when the rewrite of a component throws MissingPackageName, the
\* components after it in the batch are as they were loaded and the extension
\* references of the failing component are not rewritten; the components
\* before it keep the rewrite their own turn made.
C4_LaterUntouchedEarlierRewritten ==
    MissingPackageNameThrown =>
        /\ \A i \in Items : i > idx => Untouched(i)
        /\ depsUpdateItems[idx].consumer.extensions = loaded[idx].extensions
        /\ \A i \in Items : i < idx =>
              /\ MatchedEdgesRewritten(i)
              /\ findExtension(depsUpdateItems[i].consumer.extensions, DependencyResolverId) # 0

C4_Witness ==
    /\ MissingPackageNameThrown
    /\ idx = 2
    /\ Len(depsUpdateItems) = 3
    /\ ~Untouched(1)
    /\ Untouched(3)

\* C5: a returned result carries an error message exactly when some pipeline
\* the builder returned reports errors, and null otherwise; its items are the
\* items of the batch, one per requested item, each as the flushed store holds it.
C5_ResultError ==
    result.returned =>
        /\ (result.error # Null) = SomePipeHasErrors
        /\ result.depsUpdateItems = depsUpdateItems
        /\ Len(result.depsUpdateItems) = Len(raw)
        /\ persists = 1
        /\ \A i \in Idx(result.depsUpdateItems) :
              persisted[raw[i].componentId.name] = result.depsUpdateItems[i].consumer

C5_Witness ==
    /\ result.returned
    /\ result.error # Null
    /\ Len(result.depsUpdateItems) = 2

\* the batch and the item's pinned dependencies know the target of id
InLookup(i, id) ==
    \/ \E k \in Items : isEqualWithoutVersion(LegacyId(loaded[k]), id)
    \/ \E k \in Idx(depsUpdateItems[i].dependencies) :
          isEqualWithoutVersion(depsUpdateItems[i].dependencies[k], id)

\* a list of edges now and as loaded: as long, the same targets in the same
\* order, and an edge whose target the lookup does not know is unchanged
EdgesKept(i, now, before) ==
    /\ Len(now) = Len(before)
    /\ \A j \in Idx(before) :
          /\ isEqualWithoutVersion(now[j].id, before[j].id)
          /\ ~InLookup(i, before[j].id) => now[j] = before[j]

\* C6: at every point of a run, each component's dependencies and
\* devDependencies are as long as when loaded and name the same targets in
\* the same order, and every edge and extension reference whose target is
\* neither a batch member nor one of the item's pinned dependencies has the
\* version and the package name it was loaded with.
C6_OnlyMatchedEdgesChange ==
    Parsed =>
        \A i \in Items :
            LET c == depsUpdateItems[i].consumer
            IN  /\ EdgesKept(i, c.dependencies, loaded[i].dependencies)
                /\ EdgesKept(i, c.devDependencies, loaded[i].devDependencies)
                /\ Len(c.extensions) >= Len(loaded[i].extensions)
                /\ \A j \in Idx(loaded[i].extensions) :
                      /\ c.extensions[j].name = loaded[i].extensions[j].name
                      /\ isEqualWithoutVersion(c.extensions[j].extensionId,
                                               loaded[i].extensions[j].extensionId)
                      /\ ~InLookup(i, loaded[i].extensions[j].extensionId) =>
                            c.extensions[j].extensionId = loaded[i].extensions[j].extensionId

\* item "a" is rewritten: its edge onto "b" is matched and changed, its edge
\* onto "c" is not matched and is as loaded
C6_Witness ==
    /\ Parsed
    /\ \E i \in Items :
          /\ RewriteDone(i)
          /\ depsUpdateItems[i].consumer.name = "a"
          /\ depsUpdateItems[i].consumer.dependencies[1] # loaded[i].dependencies[1]
          /\ ~InLookup(i, loaded[i].devDependencies[1].id)
          /\ depsUpdateItems[i].consumer.devDependencies[1] = Edge("c", Sem(1, 0, 0))

\* the one requested dependency of a run of SpecResolve, its range and the
\* known versions that satisfy it
Requested == raw[1].dependencies[1]
RequestedRange == IF Requested.version = NoVer THEN Star ELSE Requested.version
Satisfying == {v \in history[Requested.name] : Satisfies(v, RequestedRange)}
Resolved == depsUpdateItems[1].dependencies[1]
ParseReturned == Rank(Position) > Rank("parse")
ParseThrew == Aborted /\ error.step = "parse"

\* C7: the requested dependency resolves to the same scope and name at the
\* highest known version that satisfies its range, "*" when it carries no
\* version; when no known version satisfies the range the parse throws
\* UnsatisfiableRange and the run is aborted with no items.
C7_HighestSatisfying ==
    /\ ParseReturned =>
          /\ Satisfying # {}
          /\ Resolved.scope = Requested.scope
          /\ Resolved.name = Requested.name
          /\ Resolved.version \in Satisfying
          /\ \A v \in Satisfying : ~SemLess(Resolved.version, v)
    /\ ParseThrew =>
          /\ Satisfying = {}
          /\ error.kind = "UnsatisfiableRange"
          /\ depsUpdateItems = <<>>

C7_Witness ==
    /\ ParseReturned
    /\ Requested.version = NoVer
    /\ Cardinality(history["b"]) >= 3
    /\ Resolved.version = Sem(2, 0, 0)

ExplicitVersion == IsSem(Requested.version)

\* C8 as stated: an explicit version absent from the history fails with NotFound.
C8_AbsentIsNotFound ==
    (ExplicitVersion /\ Requested.version \notin history[Requested.name]
        /\ (ParseReturned \/ ParseThrew)) =>
            Aborted /\ error.kind \in {"NotFound", "ComponentNotFound"}

\* C8, amended: a dependency that names an explicit version resolves to that
\* version when the history holds it, whatever higher versions exist; when the
\* history does not hold it the parse throws the error of an unsatisfiable
\* range and no other version is returned.
C8_ExplicitVersion ==
    ExplicitVersion =>
        /\ ParseReturned =>
              /\ Requested.version \in history[Requested.name]
              /\ Resolved = Requested
        /\ ParseThrew =>
              /\ Requested.version \notin history[Requested.name]
              /\ error.kind = "UnsatisfiableRange"
              /\ depsUpdateItems = <<>>

C8_Witness ==
    /\ ParseReturned
    /\ Requested.version = Sem(1, 0, 0)
    /\ Sem(2, 0, 0) \in history["b"]
    /\ Resolved.version = Sem(1, 0, 0)

\* the highest version known of item i's component when the run began
HighestKnown(i) == MaxVersion(InitialHistory[depsUpdateItems[i].consumer.name])

\* the version a release of type t follows v with
NextRelease(v, t) ==
    CASE t = "major" -> Sem(v.maj + 1, 0, 0)
      [] t = "minor" -> Sem(v.maj, v.min + 1, 0)
      [] OTHER       -> Sem(v.maj, v.min, v.pat + 1)

\* C9: after the planning step every item has a version; with option tag it
\* is a semantic version above the component's highest known version: the
\* exact version of versionToTag, or the next release of its type, a patch
\* when versionToTag is absent; without tag it is a snap token of its own,
\* whatever versionToTag says.
C9_PlannedVersions ==
    Planned =>
        \A i \in Items :
            LET v == depsUpdateItems[i].consumer.version
                vtt == depsUpdateItems[i].versionToTag
            IN  IF updateDepsOptions.tag
                  THEN /\ IsSem(v)
                       /\ SemLess(HighestKnown(i), v)
                       /\ vtt.kind = "exact" => v = vtt.exactVersion
                       /\ vtt.kind = "release" => v = NextRelease(HighestKnown(i), vtt.releaseType)
                       /\ vtt.kind = "absent" => v = NextRelease(HighestKnown(i), "patch")
                  ELSE /\ v.k = "snap"
                       /\ \A j \in Items : j # i => depsUpdateItems[j].consumer.version # v

C9_Witness ==
    /\ Planned
    /\ updateDepsOptions.tag
    /\ Len(depsUpdateItems) = 2
    /\ depsUpdateItems[1].versionToTag = NoVersionToTag
    /\ depsUpdateItems[1].consumer.name = "b"
    /\ depsUpdateItems[1].consumer.version = Sem(2, 0, 1)
    /\ depsUpdateItems[2].versionToTag = ExactVersion(Sem(3, 0, 0))
    /\ depsUpdateItems[2].consumer.version = Sem(3, 0, 0)

\* C10: a returned result has one item per requested item, in the order of
\* the request, with the versionToTag of the request; the dependencies of an
\* item are the requested ones in the order requested, each at the highest
\* known version that satisfies its range ("b@^1.0.0" at 1.1.0); the error is
\* null when no pipeline reports errors.
C10_ResultItems ==
    result.returned =>
        /\ Len(result.depsUpdateItems) = Len(raw)
        /\ \A i \in Idx(raw) :
              LET item == result.depsUpdateItems[i]
              IN  /\ isEqualWithoutVersion(item.componentId, raw[i].componentId)
                  /\ item.versionToTag = raw[i].versionToTag
                  /\ Len(item.dependencies) = Len(raw[i].dependencies)
                  /\ \A j \in Idx(raw[i].dependencies) :
                        LET want == raw[i].dependencies[j]
                            range == IF want.version = NoVer THEN Star ELSE want.version
                            got == item.dependencies[j]
                        IN  /\ isEqualWithoutVersion(got, want)
                            /\ got.version \in InitialHistory[want.name]
                            /\ Satisfies(got.version, range)
                            /\ \A v \in InitialHistory[want.name] :
                                  Satisfies(v, range) => ~SemLess(got.version, v)
                            /\ want = Id("b", Caret(1, 0, 0)) => got = Id("b", Sem(1, 1, 0))
        /\ ~SomePipeHasErrors => result.error = Null

C10_Witness ==
    /\ result.returned
    /\ raw = <<RawItem("a", <<Id("b", Caret(1, 0, 0))>>, ReleaseType("minor"))>>
    /\ updateDepsOptions.tag /\ ~updateDepsOptions.multiple
    /\ result.error = Null
    /\ result.depsUpdateItems[1].dependencies = <<Id("b", Sem(1, 1, 0))>>
    /\ result.depsUpdateItems[1].consumer.version = Sem(1, 1, 0)

\* the call before this one, and the names of the components of the batch
Before == previous[Len(previous)]
BatchNames == {raw[i].componentId.name : i \in Idx(raw)}

\* C11 as stated: a second call with the same request on the committed batch
\* plans and resolves the versions of the first call when option tag is set,
\* and mints new snap tokens when it is not.
C11_NoDrift ==
    (previous # <<>> /\ Planned) =>
        IF updateDepsOptions.tag
          THEN \A i \in Items :
                  /\ depsUpdateItems[i].consumer.version = Before.versions[i]
                  /\ depsUpdateItems[i].dependencies = Before.dependencies[i]
          ELSE \A i \in Items :
                  depsUpdateItems[i].consumer.version \notin Range1(Before.versions)

\* C11, amended: in a second call with the same request on the committed
\* batch, a requested dependency that is no member of the batch resolves to
\* the version of the first call; the versions of the batch do not repeat:
\* with option tag a release type gives every item a version above the one the
\* first call committed and an exact version, now part of the history, is
\* refused in the planning step; without option tag every item gets a snap
\* token no earlier call handed out.
C11_SecondCall ==
    previous # <<>> =>
        /\ Parsed =>
              \A i \in Items : \A j \in Idx(depsUpdateItems[i].dependencies) :
                  (~updateDepsOptions.tag \/ raw[i].dependencies[j].name \notin BatchNames) =>
                      depsUpdateItems[i].dependencies[j] = Before.dependencies[i][j]
        /\ Planned =>
              \A i \in Items :
                  LET v == depsUpdateItems[i].consumer.version
                  IN  IF updateDepsOptions.tag
                        THEN /\ IsSem(v)
                             /\ SemLess(Before.versions[i], v)
                             /\ raw[i].versionToTag.kind # "exact"
                        ELSE /\ v.k = "snap"
                             /\ \A r \in Idx(previous) : v \notin Range1(previous[r].versions)
        /\ (updateDepsOptions.tag /\ \E i \in Idx(raw) : raw[i].versionToTag.kind = "exact") =>
              Rank(Position) <= Rank("plan")

C11_Witness ==
    /\ previous # <<>>
    /\ pc = "done"
    /\ updateDepsOptions.tag
    /\ raw = <<RawItem("a", <<Id("b", Caret(1, 0, 0))>>, ReleaseType("minor"))>>
    /\ Before.versions = <<Sem(1, 1, 0)>>
    /\ depsUpdateItems[1].consumer.version = Sem(1, 2, 0)
    /\ depsUpdateItems[1].dependencies = <<Id("b", Sem(1, 1, 0))>>
    /\ Before.dependencies = <<<<Id("b", Sem(1, 1, 0))>>>>

\* the commit step has not begun: the run stands before saveDataIntoLocalScope
\* or threw before it
BeforeCommit == (pc = "save" /\ idx = 1) \/ Rank(Position) < Rank("save")

\* C12: at every point before the commit step begins the flushed store, which
\* is what another reader sees, and the version history are as the run found
\* them, and nothing has been flushed, exported or announced, whatever the
\* run has planned, rewritten, stamped or staged in its own components.
C12_StoreUnchangedBeforeCommit ==
    BeforeCommit =>
        /\ persisted = StoreAtStart
        /\ history = InitialHistory
        /\ persists = 0
        /\ exported = <<>>
        /\ remoteActions = <<>>

\* the build has returned: the components of the run carry a new version,
\* rewritten edges, the log and a build status, and are staged in the buffer
C12_Witness ==
    /\ pc = "save"
    /\ Len(depsUpdateItems) = 2
    /\ \A i \in Items :
          LET c == depsUpdateItems[i].consumer
          IN  /\ c.version # persisted[c.name].version
              /\ c.buildStatus = "pending"
              /\ c.log # NoLog
              /\ buffer[c.name].version = c.version
    /\ \E i \in Items : ~Untouched(i)

\* how many times a step was begun
Begun(step) == Cardinality({k \in Idx(trace) : trace[k] = step})

\* a remote finalisation has started
FinalisationStarted ==
    \/ exported # <<>>
    \/ remoteActions # <<>>
    \/ pendingScopes # {}
    \/ Begun("export") > 0
    \/ Begun("clear") > 0

\* C13: a remote finalisation starts only after the flush of the local store
\* has completed; once the flush has completed exactly one of the two can
\* start, export when option multiple is set and the cache-clear when it is
\* not; a run that returns has run that one once and the other never, whether
\* the build status is Succeeded or Failed.
C13_OneFinalisationAfterFlush ==
    /\ FinalisationStarted => persists = 1 /\ Begun("save") = 1
    /\ pc = "finalize" =>
          /\ persists = 1
          /\ ~FinalisationStarted
          /\ (ENABLED export) = updateDepsOptions.multiple
          /\ (ENABLED clearScopesCaches) = ~updateDepsOptions.multiple
    /\ pc \in {"return", "done"} =>
          /\ CommittedWith(buildStatus)
          /\ IF updateDepsOptions.multiple
                THEN /\ exported = <<batchIds>>
                     /\ Begun("export") = 1
                     /\ Begun("clear") = 0
                     /\ remoteActions = <<>>
                ELSE /\ exported = <<>>
                     /\ Begun("export") = 0
                     /\ Begun("clear") = 1
                     /\ remoteActions # <<>>
                     /\ pendingScopes = {}

\* a run whose build failed has flushed the batch and then exported it
C13_Witness ==
    /\ pc = "done"
    /\ buildStatus = "failed"
    /\ updateDepsOptions.multiple
    /\ persists = 1
    /\ Len(depsUpdateItems) = 2
    /\ exported = <<batchIds>>

\* the requested dependencies of the items before item i, and of all items
RECURSIVE DepsBefore(_)
DepsBefore(i) == IF i <= 1 THEN 0 ELSE DepsBefore(i - 1) + Len(raw[i - 1].dependencies)
DepsRequested == DepsBefore(Len(raw) + 1)

\* the ids of the one call of scope.import that stand for a dependency are
\* the requested dependencies, item by item, each at "latest"
ImportsDependencies(ids) ==
    /\ Len(ids) >= DepsRequested
    /\ \A i \in Idx(raw) : \A j \in Idx(raw[i].dependencies) :
          LET id == ids[DepsBefore(i) + j]
          IN  /\ isEqualWithoutVersion(id, raw[i].dependencies[j])
              /\ id.version = LATEST

\* the ids after the dependencies: none, or with option multiple one per
\* item of the request
RootsImported(ids) == SubSeq(ids, DepsRequested + 1, Len(ids))

\* import was called once, first, without the cache, and nothing was loaded
\* or resolved before it
ImportedOnceFirst ==
    /\ Len(imported) = (IF pc = "import" THEN 0 ELSE 1)
    /\ Begun("import") = Len(imported)
    /\ trace # <<>> => trace[1] = "import"
    /\ imported = <<>> => depsUpdateItems = <<>> /\ loaded = <<>>
    /\ \A k \in Idx(imported) : ~imported[k].useCache

\* an id that asks for the latest version of its component
AtLatest(id) ==
    id.version \in {LATEST, NoVer, MaxVersion(InitialHistory[id.name])}

\* C14 as stated: with option multiple every root component is requested at
\* its latest known version.
C14_RootsAtLatest ==
    imported # <<>> =>
        LET roots == RootsImported(imported[1].ids)
        IN  /\ Len(roots) = (IF updateDepsOptions.multiple THEN Len(raw) ELSE 0)
            /\ \A i \in Idx(roots) :
                  isEqualWithoutVersion(roots[i], raw[i].componentId) /\ AtLatest(roots[i])

\* C14, amended: import is called exactly once per run, before any component
\* is loaded and any range resolved, with useCache false; it requests every
\* dependency listed by every item, each at "latest", and, if and only if
\* option multiple is set, every root component identifier as the request
\* names it, with the version the request gives it.
C14_ImportOnce ==
    /\ ImportedOnceFirst
    /\ imported # <<>> =>
          /\ ImportsDependencies(imported[1].ids)
          /\ RootsImported(imported[1].ids) =
                (IF updateDepsOptions.multiple
                   THEN [i \in Idx(raw) |-> raw[i].componentId]
                   ELSE <<>>)

C14_Witness ==
    /\ Parsed
    /\ updateDepsOptions.multiple
    /\ raw[1].componentId = Id("b", Sem(1, 0, 0))
    /\ raw[1].dependencies = <<Id("b", Caret(1, 0, 0))>>
    /\ imported = <<[ids |-> <<Id("b", LATEST), Id("b", Sem(1, 0, 0))>>, useCache |-> FALSE]>>

\* item i has the version the planning step gave it, no longer the one it
\* was loaded at
HasPlannedVersion(i) == depsUpdateItems[i].consumer.version # loaded[i].version

\* the version of every item
Versions == [i \in Items |-> depsUpdateItems[i].consumer.version]

\* C15: when the rewrite of the first item begins every item of the batch has
\* its planned version; as long as some item is unplanned every component has
\* the edges and extensions it was loaded with; and once the rewrite step has
\* begun no item's version changes.
C15_PlannedBeforeRewrite ==
    /\ [](/\ Begun("rewrite") > 0 => \A i \in Items : HasPlannedVersion(i)
          /\ (Parsed /\ \E i \in Items : ~HasPlannedVersion(i)) =>
                /\ Begun("rewrite") = 0
                /\ \A i \in Items : Untouched(i))
    /\ [][Begun("rewrite") > 0 => Versions' = Versions]_vars

\* the second of three items is being rewritten and all three are planned
C15_Witness ==
    /\ pc = "rewrite"
    /\ idx = 2
    /\ Len(depsUpdateItems) = 3
    /\ ~Untouched(1)
    /\ \A i \in Items : HasPlannedVersion(i)

\* the commit step is under way: some components may be written, the buffer
\* is not flushed yet, or the step threw
Committing == Position \in {"save", "flush"}

\* a final build status
FinalStatus == {"succeed", "failed"}

\* C16: the buffer is flushed at most once in a run; while the components are
\* written one after the other nothing is flushed and the store is as the run
\* found it; when the flush is due every component of the batch has been
\* written with the one final build status, Succeeded or Failed, its log and
\* its dependency data; once flushed the store holds every component of the
\* batch so; and a flush that fails ends the run without a result and
\* without a finalisation.
C16_FlushOnceAfterAllWritten ==
    /\ persists <= 1
    /\ (Committing /\ ~Aborted) =>
          /\ persists = 0
          /\ persisted = StoreAtStart
    /\ (pc = "flush" \/ persists = 1) =>
          \A i \in Items :
              LET c == depsUpdateItems[i].consumer
              IN  /\ buffer[c.name] = c
                  /\ c.buildStatus = buildStatus
                  /\ c.buildStatus \in FinalStatus
                  /\ c.log # NoLog
                  /\ findExtension(c.extensions, DependencyResolverId) # 0
    /\ persists = 1 =>
          /\ Begun("save") = 1
          /\ \A i \in Items :
                persisted[depsUpdateItems[i].consumer.name] = depsUpdateItems[i].consumer
    /\ (Aborted /\ error.kind = "PersistenceError") =>
          /\ persists = 0
          /\ ~result.returned
          /\ ~FinalisationStarted
          /\ ~ENABLED Next

\* the second of three components has been written with the status Failed,
\* the third still is Pending, and nothing is flushed
C16_Witness ==
    /\ pc = "save"
    /\ idx = 3
    /\ Len(depsUpdateItems) = 3
    /\ buffer[depsUpdateItems[2].consumer.name].buildStatus = "failed"
    /\ depsUpdateItems[3].consumer.buildStatus = "pending"
    /\ persisted = StoreAtStart

\* the scopes that own a component of the batch, the scopes whose action has
\* completed, and the actions that name a given id
BatchScopes == {depsUpdateItems[i].consumer.scope : i \in Items}
ScopesDone == {remoteActions[k].scope : k \in Idx(remoteActions)}
ActionsNaming(id) == {k \in Idx(remoteActions) : id \in Range1(remoteActions[k].ids)}

\* C17: without option multiple, in whichever order the actions of the
\* scopes complete, a scope receives at most one action, only a scope that
\* owns a component of the batch receives one, and the action carries the
\* ids of exactly the batch components of that scope, each once; while the
\* step is under way every scope of the batch has its action in flight or
\* completed; and the step is left only when the action of every scope of
\* the batch has completed, every component then being announced once, to
\* the remote of its own scope.
C17_OneActionPerScope ==
    /\ updateDepsOptions.multiple => remoteActions = <<>> /\ pendingScopes = {}
    /\ \A k, l \in Idx(remoteActions) :
          k # l => remoteActions[k].scope # remoteActions[l].scope
    /\ \A k \in Idx(remoteActions) :
          LET a == remoteActions[k]
          IN  /\ a.scope \in BatchScopes
              /\ a.scope \notin pendingScopes
              /\ Injective(a.ids)
              /\ Range1(a.ids) =
                    {LegacyId(depsUpdateItems[i].consumer) :
                        i \in {j \in Items : depsUpdateItems[j].consumer.scope = a.scope}}
    /\ pc = "clearing" => pendingScopes \cup ScopesDone = BatchScopes
    /\ (pc \in {"return", "done"} /\ ~updateDepsOptions.multiple) =>
          /\ pendingScopes = {}
          /\ ScopesDone = BatchScopes
          /\ \A i \in Items :
                Cardinality(ActionsNaming(LegacyId(depsUpdateItems[i].consumer))) = 1

\* the batch lists "a", "c", "b"; the action of the scope of "c" completed
\* before the action of the scope of "a" and "b"
C17_Witness ==
    /\ pc = "done"
    /\ ~updateDepsOptions.multiple
    /\ Len(depsUpdateItems) = 3
    /\ [i \in Items |-> depsUpdateItems[i].consumer.name] = <<"a", "c", "b">>
    /\ Len(remoteActions) = 2
    /\ remoteActions[1].scope = "s2"
    /\ Len(remoteActions[1].ids) = 1
    /\ remoteActions[2].scope = "s1"
    /\ Len(remoteActions[2].ids) = 2

\* d lists the edges of component c, in their order
DescribesEdges(d, c) ==
    /\ Len(d) = Len(EdgesOf(c))
    /\ \A k \in Idx(d) :
          /\ d[k].id = EdgesOf(c)[k].id
          /\ d[k].packageName = EdgesOf(c)[k].packageName

\* the turn of updateAllDeps for item i was begun and threw
RewriteThrew(i) == Aborted /\ error.step = "rewrite" /\ i = idx

\* C18: once the dependency metadata of a component has been updated, the
\* data of its dependency-resolver extension has the fields it was loaded
\* with, each with the value it was loaded with except dependencies, which
\* lists the component's edges; every other extension record has the name and
\* the data it was loaded with and refers to the same component; a component
\* loaded without the extension has exactly one more record, the last, which
\* holds the dependencies and nothing else. Before the update, and when the
\* rewrite of the component threw, the names and the data are as loaded.
C18_OnlyDependenciesReplaced ==
    Parsed =>
        \A i \in Items :
            LET c == depsUpdateItems[i].consumer
                now == c.extensions
                before == loaded[i].extensions
                had == \E j \in Idx(before) : before[j].name = DependencyResolverId
            IN  IF RewriteDone(i) /\ ~RewriteThrew(i)
                  THEN /\ Len(now) = Len(before) + (IF had THEN 0 ELSE 1)
                       /\ \A j \in Idx(before) :
                             /\ now[j].name = before[j].name
                             /\ isEqualWithoutVersion(now[j].extensionId, before[j].extensionId)
                             /\ IF before[j].name = DependencyResolverId
                                   THEN /\ DOMAIN now[j].data =
                                              DOMAIN before[j].data \cup {"dependencies"}
                                        /\ \A f \in DOMAIN before[j].data \ {"dependencies"} :
                                              now[j].data[f] = before[j].data[f]
                                        /\ DescribesEdges(now[j].data.dependencies, c)
                                   ELSE now[j].data = before[j].data
                       /\ ~had =>
                             /\ now[Len(now)].name = DependencyResolverId
                             /\ now[Len(now)].extensionId = NoId
                             /\ DOMAIN now[Len(now)].data = {"dependencies"}
                             /\ DescribesEdges(now[Len(now)].data.dependencies, c)
                  ELSE /\ Len(now) = Len(before)
                       /\ \A j \in Idx(before) :
                             /\ now[j].name = before[j].name
                             /\ now[j].data = before[j].data

\* "a", loaded with the extension, keeps its policy and lists its rewritten
\* edges; "b", loaded without it, has one more record
C18_Witness ==
    /\ pc = "stamp"
    /\ Len(depsUpdateItems) = 2
    /\ depsUpdateItems[1].consumer.name = "a"
    /\ depsUpdateItems[1].consumer.extensions[2].data.policy = "p"
    /\ depsUpdateItems[1].consumer.extensions[2].data.dependencies # <<>>
    /\ ~Untouched(1)
    /\ depsUpdateItems[2].consumer.name = "b"
    /\ Len(depsUpdateItems[2].consumer.extensions) = 2
    /\ Len(loaded[2].extensions) = 1

\* the id the batch carried for item k while the edges were rewritten: the id
\* of the component as it was loaded
BatchId(k) == LegacyId(loaded[k])

\* item i has a pinned dependency on the component of id
Pins(i, id) ==
    \E d \in Idx(depsUpdateItems[i].dependencies) :
        isEqualWithoutVersion(depsUpdateItems[i].dependencies[d], id)

\* C19: once an item is rewritten, each of its edges and extension references
\* whose target is both a member of the batch and one of the item's pinned
\* dependencies carries the id of the batch member, whatever version the
\* requested range resolved to.
C19_BatchIdWins ==
    Parsed =>
        \A i \in Items : RewriteDone(i) =>
            \A k \in Items :
                /\ \A j \in Idx(EdgesOf(loaded[i])) :
                      (/\ isEqualWithoutVersion(EdgesOf(loaded[i])[j].id, BatchId(k))
                       /\ Pins(i, BatchId(k))) =>
                          EdgesOf(depsUpdateItems[i].consumer)[j].id = BatchId(k)
                /\ \A j \in Idx(loaded[i].extensions) :
                      (/\ isEqualWithoutVersion(loaded[i].extensions[j].extensionId, BatchId(k))
                       /\ Pins(i, BatchId(k))) =>
                          depsUpdateItems[i].consumer.extensions[j].extensionId = BatchId(k)

\* "a" asks for "b@^1.0.0", which resolves to 1.1.0, in a batch that holds
\* "b" at 2.0.0: the edge of "a" onto "b" is at 2.0.0
C19_Witness ==
    /\ Parsed
    /\ \E i, k \in Items :
          /\ RewriteDone(i)
          /\ depsUpdateItems[i].consumer.name = "a"
          /\ depsUpdateItems[i].dependencies = <<Id("b", Sem(1, 1, 0))>>
          /\ BatchId(k) = Id("b", Sem(2, 0, 0))
          /\ loaded[i].dependencies[1].id = Id("b", Sem(1, 0, 0))
          /\ depsUpdateItems[i].consumer.dependencies[1].id = Id("b", Sem(2, 0, 0))

\* the component of id is a member of the batch
BatchMember(id) == \E k \in Items : isEqualWithoutVersion(BatchId(k), id)

\* C20: the pinned dependencies of an item reach the edges of its own
\* component only: an edge or extension reference of another batch component
\* onto a target that some other item pins, that its own item does not pin
\* and that is no member of the batch, is as it was loaded.
C20_PinsApplyPerItem ==
    Parsed =>
        \A i, k \in Items : i # k =>
            /\ \A j \in Idx(EdgesOf(loaded[k])) :
                  LET target == EdgesOf(loaded[k])[j].id
                  IN  (Pins(i, target) /\ ~Pins(k, target) /\ ~BatchMember(target)) =>
                          EdgesOf(depsUpdateItems[k].consumer)[j] = EdgesOf(loaded[k])[j]
            /\ \A j \in Idx(loaded[k].extensions) :
                  LET target == loaded[k].extensions[j].extensionId
                  IN  (Pins(i, target) /\ ~Pins(k, target) /\ ~BatchMember(target)) =>
                          depsUpdateItems[k].consumer.extensions[j].extensionId = target

\* "a" pins "c" at 2.0.0 and "b" pins nothing, in a batch without "c": the
\* edge of "a" onto "c" is at 2.0.0, the edge of "b" onto "c" still at 1.0.0
C20_Witness ==
    /\ pc = "stamp"
    /\ \E i, k \in Items :
          /\ depsUpdateItems[i].consumer.name = "a"
          /\ depsUpdateItems[k].consumer.name = "b"
          /\ depsUpdateItems[i].dependencies = <<Id("c", Sem(2, 0, 0))>>
          /\ depsUpdateItems[k].dependencies = <<>>
          /\ ~BatchMember(Id("c", NoVer))
          /\ depsUpdateItems[i].consumer.devDependencies[1].id = Id("c", Sem(2, 0, 0))
          /\ depsUpdateItems[i].consumer.extensions[1].extensionId = Id("c", Sem(2, 0, 0))
          /\ depsUpdateItems[k].consumer.dependencies[1] = Edge("c", Sem(1, 0, 0))

====
